---- MODULE Spec2Model ----
(***************************************************************************)
(* routype: the client built by createClient and the request/response      *)
(* translation done by each client method (buildMethod, interpolatePath,   *)
(* buildQuery, parseResponseBody).                                         *)
(*                                                                         *)
(* JavaScript strings that the code takes apart (paths, query strings,     *)
(* JSON texts) are sequences of one-character strings.  Header names and   *)
(* values, which the code only compares and copies, are atomic strings.    *)
(* JavaScript values are records [k |-> kind, v |-> payload].              *)
(***************************************************************************)
EXTENDS Integers, Sequences, FiniteSets, TLC

(***************************************************************************)
(* JavaScript values                                                       *)
(***************************************************************************)
Undefined == [k |-> "undefined", v |-> 0]
Null == [k |-> "null", v |-> 0]
JStr(s) == [k |-> "string", v |-> s]
JNum(n) == [k |-> "number", v |-> n]
JBool(b) == [k |-> "boolean", v |-> b]
JArr(a) == [k |-> "array", v |-> a]
JObj(entries) == [k |-> "object", v |-> entries]
\* FormData, Blob, ReadableStream instances: opaque to the code
JRaw(class) == [k |-> "raw", v |-> class]

RawClasses == {"FormData", "Blob", "ReadableStream"}

(***************************************************************************)
(* Characters                                                              *)
(***************************************************************************)
Lower == {"a", "b", "c", "d", "e", "f", "g", "h", "i", "j", "k", "l", "m",
          "n", "o", "p", "q", "r", "s", "t", "u", "v", "w", "x", "y", "z"}
Upper == {"A", "B", "C", "D", "E", "F", "G", "H", "I", "J", "K", "L", "M",
          "N", "O", "P", "Q", "R", "S", "T", "U", "V", "W", "X", "Y", "Z"}
DigitChars == <<"0", "1", "2", "3", "4", "5", "6", "7", "8", "9">>
Digit == {DigitChars[i] : i \in 1..10}

\* [a-zA-Z_] and [a-zA-Z0-9_] of the placeholder pattern
IdentStart == Lower \cup Upper \cup {"_"}
IdentChar == IdentStart \cup Digit

RECURSIVE Concat(_)
\* the concatenation of a sequence of strings
Concat(ss) == IF ss = <<>> THEN <<>> ELSE Head(ss) \o Concat(Tail(ss))

RECURSIVE NatToString(_)
NatToString(n) ==
  IF n < 10 THEN <<DigitChars[n + 1]>>
  ELSE NatToString(n \div 10) \o <<DigitChars[(n % 10) + 1]>>

NumberToString(n) == IF n < 0 THEN <<"-">> \o NatToString(-n) ELSE NatToString(n)

RECURSIVE Join(_, _)
Join(ss, sep) ==
  IF ss = <<>> THEN <<>>
  ELSE IF Len(ss) = 1 THEN ss[1]
  ELSE ss[1] \o sep \o Join(Tail(ss), sep)

RECURSIVE StringOf(_)
\* String(v) and the implicit string coercion of encodeURIComponent(v)
StringOf(x) ==
  CASE x.k = "string" -> x.v
    [] x.k = "number" -> NumberToString(x.v)
    [] x.k = "boolean" -> IF x.v THEN <<"t", "r", "u", "e">> ELSE <<"f", "a", "l", "s", "e">>
    [] x.k = "null" -> <<"n", "u", "l", "l">>
    [] x.k = "undefined" -> <<"u", "n", "d", "e", "f", "i", "n", "e", "d">>
    [] x.k = "array" ->
         Join([i \in 1..Len(x.v) |->
                 IF x.v[i].k \in {"null", "undefined"} THEN <<>> ELSE StringOf(x.v[i])],
              <<",">>)
    [] OTHER -> <<"[", "o", "b", "j", "e", "c", "t", " ", "O", "b", "j", "e", "c", "t", "]">>

(***************************************************************************)
(* Percent-encoding                                                        *)
(***************************************************************************)
\* the UTF-8 escape of the ASCII characters that are neither letters nor digits
PercentEscape(c) ==
  CASE c = " " -> <<"%", "2", "0">>
    [] c = "!" -> <<"%", "2", "1">>
    [] c = "\"" -> <<"%", "2", "2">>
    [] c = "#" -> <<"%", "2", "3">>
    [] c = "$" -> <<"%", "2", "4">>
    [] c = "%" -> <<"%", "2", "5">>
    [] c = "&" -> <<"%", "2", "6">>
    [] c = "'" -> <<"%", "2", "7">>
    [] c = "(" -> <<"%", "2", "8">>
    [] c = ")" -> <<"%", "2", "9">>
    [] c = "*" -> <<"%", "2", "A">>
    [] c = "+" -> <<"%", "2", "B">>
    [] c = "," -> <<"%", "2", "C">>
    [] c = "-" -> <<"%", "2", "D">>
    [] c = "." -> <<"%", "2", "E">>
    [] c = "/" -> <<"%", "2", "F">>
    [] c = ":" -> <<"%", "3", "A">>
    [] c = ";" -> <<"%", "3", "B">>
    [] c = "<" -> <<"%", "3", "C">>
    [] c = "=" -> <<"%", "3", "D">>
    [] c = ">" -> <<"%", "3", "E">>
    [] c = "?" -> <<"%", "3", "F">>
    [] c = "@" -> <<"%", "4", "0">>
    [] c = "[" -> <<"%", "5", "B">>
    [] c = "\\" -> <<"%", "5", "C">>
    [] c = "]" -> <<"%", "5", "D">>
    [] c = "^" -> <<"%", "5", "E">>
    [] c = "_" -> <<"%", "5", "F">>
    [] c = "{" -> <<"%", "7", "B">>
    [] c = "|" -> <<"%", "7", "C">>
    [] c = "}" -> <<"%", "7", "D">>
    [] c = "~" -> <<"%", "7", "E">>

\* characters encodeURIComponent leaves alone
UriUnreserved == Lower \cup Upper \cup Digit \cup {"-", "_", ".", "!", "~", "*", "'", "(", ")"}

encodeURIComponent(x) ==
  LET s == StringOf(x)
  IN Concat([i \in 1..Len(s) |->
               IF s[i] \in UriUnreserved THEN <<s[i]>> ELSE PercentEscape(s[i])])

\* characters the application/x-www-form-urlencoded serializer leaves alone
FormUnreserved == Lower \cup Upper \cup Digit \cup {"*", "-", ".", "_"}

\* one name or value of URLSearchParams.prototype.toString
FormEncode(s) ==
  Concat([i \in 1..Len(s) |->
            IF s[i] \in FormUnreserved THEN <<s[i]>>
            ELSE IF s[i] = " " THEN <<"+">>
            ELSE PercentEscape(s[i])])

(***************************************************************************)
(* Objects: a sequence of <<key, value>> entries with distinct keys, in    *)
(* insertion order (the order of Object.entries)                           *)
(***************************************************************************)
RECURSIVE EntryValue(_, _, _)
EntryValue(entries, key, i) ==
  IF i > Len(entries) THEN Undefined
  ELSE IF entries[i][1] = key THEN entries[i][2]
  ELSE EntryValue(entries, key, i + 1)

\* obj[key] for an own property, undefined when there is none
Lookup(obj, key) == EntryValue(obj.v, key, 1)

\* the condition of `x ? a : b` and of `if (x)`
Truthy(x) ==
  CASE x.k \in {"undefined", "null"} -> FALSE
    [] x.k = "boolean" -> x.v
    [] x.k = "number" -> x.v # 0
    [] x.k = "string" -> x.v # <<>>
    [] OTHER -> TRUE

(***************************************************************************)
(* interpolatePath                                                         *)
(***************************************************************************)
RECURSIVE IdentRun(_, _)
\* how many characters from position i on match [a-zA-Z0-9_]*
IdentRun(path, i) ==
  IF i <= Len(path) /\ path[i] \in IdentChar THEN 1 + IdentRun(path, i + 1) ELSE 0

\* a match of /:([a-zA-Z_][a-zA-Z0-9_]*)/ starts at position i
PlaceholderAt(path, i) ==
  /\ i < Len(path)
  /\ path[i] = ":"
  /\ path[i + 1] \in IdentStart

\* the error interpolatePath throws, by its message
MissingMessage == <<"M", "i", "s", "s", "i", "n", "g", " ", "p", "a", "t", "h", " ",
                    "p", "a", "r", "a", "m", ":", " ">>
MissingPathParam(key) == [k |-> "Error", v |-> MissingMessage \o key]

RECURSIVE ReplaceFirstFrom(_, _, _)
\* path.replace with a pattern that lacks the g flag: the first match only
ReplaceFirstFrom(path, params, i) ==
  IF i > Len(path) THEN [ok |-> TRUE, s |-> <<>>]
  ELSE IF PlaceholderAt(path, i)
  THEN LET n == IdentRun(path, i + 1)
           key == SubSeq(path, i + 1, i + n)
           val == Lookup(params, key)
       IN IF val.k = "undefined" THEN [ok |-> FALSE, s |-> key]
          ELSE [ok |-> TRUE,
                s |-> encodeURIComponent(val) \o SubSeq(path, i + n + 1, Len(path))]
  ELSE LET rest == ReplaceFirstFrom(path, params, i + 1)
       IN IF rest.ok THEN [ok |-> TRUE, s |-> <<path[i]>> \o rest.s] ELSE rest

interpolatePathFirstOnly(path, params) == ReplaceFirstFrom(path, params, 1)

RECURSIVE ReplaceFrom(_, _, _)
\* path.replace(pattern, callback) from position i on: [ok, s] where s is the
\* replaced text, or, when the callback throws, the key it throws for
ReplaceFrom(path, params, i) ==
  IF i > Len(path) THEN [ok |-> TRUE, s |-> <<>>]
  ELSE IF PlaceholderAt(path, i)
  THEN LET n == IdentRun(path, i + 1)
           key == SubSeq(path, i + 1, i + n)
           val == Lookup(params, key)
       IN IF val.k = "undefined" THEN [ok |-> FALSE, s |-> key]
          ELSE LET rest == ReplaceFrom(path, params, i + n + 1)
               IN IF rest.ok
                  THEN [ok |-> TRUE, s |-> encodeURIComponent(val) \o rest.s]
                  ELSE rest
  ELSE LET rest == ReplaceFrom(path, params, i + 1)
       IN IF rest.ok THEN [ok |-> TRUE, s |-> <<path[i]>> \o rest.s] ELSE rest

interpolatePath(path, params) == ReplaceFrom(path, params, 1)

(***************************************************************************)
(* buildQuery                                                              *)
(***************************************************************************)
\* URLSearchParams: a list of <<name, value>> pairs
UspAppend(p, name, value) == Append(p, <<name, value>>)

\* URLSearchParams.set: the first pair of that name gets the value and the
\* others go; a new name is appended
UspSet(p, name, value) ==
  IF \E i \in 1..Len(p) : p[i][1] = name
  THEN LET first == CHOOSE i \in 1..Len(p) :
                      /\ p[i][1] = name
                      /\ \A j \in 1..(i - 1) : p[j][1] # name
           keep == SelectSeq([i \in 1..Len(p) |-> <<i, p[i]>>],
                             LAMBDA e : e[2][1] # name \/ e[1] = first)
       IN [i \in 1..Len(keep) |->
             IF keep[i][1] = first THEN <<name, value>> ELSE keep[i][2]]
  ELSE Append(p, <<name, value>>)

RECURSIVE AppendEachBySet(_, _, _, _)
\* for (const v of value) p.set(key, String(v))
AppendEachBySet(p, key, arr, i) ==
  IF i > Len(arr) THEN p
  ELSE AppendEachBySet(UspSet(p, key, StringOf(arr[i])), key, arr, i + 1)

RECURSIVE AppendEach(_, _, _, _)
\* for (const v of value) p.append(key, String(v))
AppendEach(p, key, arr, i) ==
  IF i > Len(arr) THEN p
  ELSE AppendEach(UspAppend(p, key, StringOf(arr[i])), key, arr, i + 1)

RECURSIVE QueryLoopKeepNull(_, _, _)
\* the loop with `value === undefined` alone as its skip condition
QueryLoopKeepNull(entries, i, p) ==
  IF i > Len(entries) THEN p
  ELSE LET key == entries[i][1]
           value == entries[i][2]
       IN IF value.k = "undefined" THEN QueryLoopKeepNull(entries, i + 1, p)
          ELSE IF value.k = "array"
          THEN QueryLoopKeepNull(entries, i + 1, AppendEach(p, key, value.v, 1))
          ELSE QueryLoopKeepNull(entries, i + 1, UspSet(p, key, StringOf(value)))

RECURSIVE QueryLoop(_, _, _)
\* the loop over Object.entries(query)
QueryLoop(entries, i, p) ==
  IF i > Len(entries) THEN p
  ELSE LET key == entries[i][1]
           value == entries[i][2]
       IN IF value.k \in {"null", "undefined"} THEN QueryLoop(entries, i + 1, p)
          ELSE IF value.k = "array"
          THEN QueryLoop(entries, i + 1, AppendEach(p, key, value.v, 1))
          ELSE QueryLoop(entries, i + 1, UspSet(p, key, StringOf(value)))

\* URLSearchParams.prototype.toString
UspToString(p) ==
  Join([i \in 1..Len(p) |-> FormEncode(p[i][1]) \o <<"=">> \o FormEncode(p[i][2])],
       <<"&">>)

QueryPairs(query) == QueryLoop(query.v, 1, <<>>)

buildQuery(query) == UspToString(QueryPairs(query))

(***************************************************************************)
(* JSON.stringify                                                          *)
(***************************************************************************)
JsonQuote(s) ==
  <<"\"">> \o
  Concat([i \in 1..Len(s) |->
            IF s[i] = "\"" THEN <<"\\", "\"">>
            ELSE IF s[i] = "\\" THEN <<"\\", "\\">>
            ELSE <<s[i]>>]) \o
  <<"\"">>

RECURSIVE JSONStringify(_)
\* JSON.stringify(x) for a value that is not undefined
JSONStringify(x) ==
  CASE x.k = "string" -> JsonQuote(x.v)
    [] x.k = "number" -> NumberToString(x.v)
    [] x.k = "boolean" -> StringOf(x)
    [] x.k = "array" ->
         <<"[">> \o
         Join([i \in 1..Len(x.v) |->
                 IF x.v[i].k = "undefined" THEN StringOf(Null) ELSE JSONStringify(x.v[i])],
              <<",">>) \o
         <<"]">>
    [] x.k = "object" ->
         LET own == SelectSeq(x.v, LAMBDA e : e[2].k # "undefined")
         IN <<"{">> \o
            Join([i \in 1..Len(own) |->
                    JsonQuote(own[i][1]) \o <<":">> \o JSONStringify(own[i][2])],
                 <<",">>) \o
            <<"}">>
    [] OTHER -> StringOf(Null)

(***************************************************************************)
(* JSON.parse, for texts of integers, strings without control escapes,     *)
(* literals, arrays and objects                                            *)
(***************************************************************************)
ParseFail == [ok |-> FALSE, v |-> Undefined, i |-> 0]
Parsed(val, next) == [ok |-> TRUE, v |-> val, i |-> next]

RECURSIVE SkipWs(_, _)
SkipWs(t, i) == IF i <= Len(t) /\ t[i] = " " THEN SkipWs(t, i + 1) ELSE i

StartsWith(t, i, w) ==
  /\ i + Len(w) - 1 <= Len(t)
  /\ SubSeq(t, i, i + Len(w) - 1) = w

DigitValue(c) == CHOOSE d \in 0..9 : DigitChars[d + 1] = c

RECURSIVE ParseDigits(_, _, _)
ParseDigits(t, i, acc) ==
  IF i <= Len(t) /\ t[i] \in Digit
  THEN ParseDigits(t, i + 1, 10 * acc + DigitValue(t[i]))
  ELSE Parsed(acc, i)

\* -? (0 | [1-9][0-9]*), with no fraction and no exponent
ParseNumber(t, i) ==
  LET neg == i <= Len(t) /\ t[i] = "-"
      j == IF neg THEN i + 1 ELSE i
  IN IF j > Len(t) \/ t[j] \notin Digit THEN ParseFail
     ELSE LET r == IF t[j] = "0" THEN Parsed(0, j + 1) ELSE ParseDigits(t, j, 0)
          IN Parsed(JNum(IF neg THEN 0 - r.v ELSE r.v), r.i)

RECURSIVE ParseChars(_, _, _)
\* the characters of a string, from after its opening quote
ParseChars(t, i, acc) ==
  IF i > Len(t) THEN ParseFail
  ELSE IF t[i] = "\"" THEN Parsed(acc, i + 1)
  ELSE IF t[i] = "\\"
  THEN IF i < Len(t) /\ t[i + 1] \in {"\"", "\\", "/"}
       THEN ParseChars(t, i + 2, Append(acc, t[i + 1]))
       ELSE ParseFail
  ELSE ParseChars(t, i + 1, Append(acc, t[i]))

RECURSIVE ParseValue(_, _)
RECURSIVE ParseElements(_, _, _)
RECURSIVE ParseMembers(_, _, _)

\* the elements of an array, from the first element on
ParseElements(t, i, acc) ==
  LET r == ParseValue(t, SkipWs(t, i))
  IN IF ~r.ok THEN ParseFail
     ELSE LET j == SkipWs(t, r.i)
          IN IF j > Len(t) THEN ParseFail
             ELSE IF t[j] = "]" THEN Parsed(JArr(Append(acc, r.v)), j + 1)
             ELSE IF t[j] = "," THEN ParseElements(t, j + 1, Append(acc, r.v))
             ELSE ParseFail

\* the members of an object, from the first key on
ParseMembers(t, i, acc) ==
  LET a == SkipWs(t, i)
  IN IF a > Len(t) \/ t[a] # "\"" THEN ParseFail
     ELSE LET key == ParseChars(t, a + 1, <<>>)
          IN IF ~key.ok THEN ParseFail
             ELSE LET c == SkipWs(t, key.i)
                  IN IF c > Len(t) \/ t[c] # ":" THEN ParseFail
                     ELSE LET r == ParseValue(t, SkipWs(t, c + 1))
                          IN IF ~r.ok THEN ParseFail
                             ELSE LET j == SkipWs(t, r.i)
                                      \* a repeated key keeps its place and takes the last value
                                      dup == \E n \in 1..Len(acc) : acc[n][1] = key.v
                                      more == IF dup
                                              THEN [n \in 1..Len(acc) |->
                                                      IF acc[n][1] = key.v
                                                      THEN <<key.v, r.v>> ELSE acc[n]]
                                              ELSE Append(acc, <<key.v, r.v>>)
                                  IN IF j > Len(t) THEN ParseFail
                                     ELSE IF t[j] = "}" THEN Parsed(JObj(more), j + 1)
                                     ELSE IF t[j] = "," THEN ParseMembers(t, j + 1, more)
                                     ELSE ParseFail

ParseValue(t, i) ==
  IF i > Len(t) THEN ParseFail
  ELSE IF StartsWith(t, i, <<"n", "u", "l", "l">>) THEN Parsed(Null, i + 4)
  ELSE IF StartsWith(t, i, <<"t", "r", "u", "e">>) THEN Parsed(JBool(TRUE), i + 4)
  ELSE IF StartsWith(t, i, <<"f", "a", "l", "s", "e">>) THEN Parsed(JBool(FALSE), i + 5)
  ELSE IF t[i] = "\""
  THEN LET r == ParseChars(t, i + 1, <<>>)
       IN IF r.ok THEN Parsed(JStr(r.v), r.i) ELSE ParseFail
  ELSE IF t[i] = "["
  THEN LET j == SkipWs(t, i + 1)
       IN IF j <= Len(t) /\ t[j] = "]" THEN Parsed(JArr(<<>>), j + 1)
          ELSE ParseElements(t, j, <<>>)
  ELSE IF t[i] = "{"
  THEN LET j == SkipWs(t, i + 1)
       IN IF j <= Len(t) /\ t[j] = "}" THEN Parsed(JObj(<<>>), j + 1)
          ELSE ParseMembers(t, j, <<>>)
  ELSE ParseNumber(t, i)

SyntaxError == [k |-> "SyntaxError", v |-> 0]

\* a decoder that hands the text back undecoded
JSONParseKeepText(t) == [ok |-> TRUE, v |-> JStr(t)]

\* JSON.parse(text): [ok, v], v the value or the SyntaxError thrown
JSONParse(t) ==
  LET r == ParseValue(t, SkipWs(t, 1))
  IN IF r.ok /\ SkipWs(t, r.i) > Len(t)
     THEN [ok |-> TRUE, v |-> r.v]
     ELSE [ok |-> FALSE, v |-> SyntaxError]

(***************************************************************************)
(* Headers                                                                 *)
(***************************************************************************)
\* header names are case-insensitive: a Headers object keeps them in lower case
LowerCase(name) ==
  CASE name = "Content-Type" -> "content-type"
    [] name = "Authorization" -> "authorization"
    [] name = "X-Request-ID" -> "x-request-id"
    [] OTHER -> name

\* a Headers object: lower-case name -> the values appended under it, which
\* get() joins with ", "
NoHeaders == <<>>

HeadersAppend(h, name, value) ==
  LET n == LowerCase(name)
  IN IF n \in DOMAIN h
     THEN [h EXCEPT ![n] = Append(@, value)]
     ELSE (n :> <<value>>) @@ h

HeadersSet(h, name, value) ==
  LET n == LowerCase(name)
  IN IF n \in DOMAIN h
     THEN [h EXCEPT ![n] = <<value>>]
     ELSE (n :> <<value>>) @@ h

HeadersHas(h, name) == LowerCase(name) \in DOMAIN h

RECURSIVE HeadersFill(_, _, _)
HeadersFill(h, entries, i) ==
  IF i > Len(entries) THEN h
  ELSE HeadersFill(HeadersAppend(h, entries[i][1], entries[i][2]), entries, i + 1)

\* new Headers(init), init undefined or a record of name: value
NewHeaders(init) ==
  IF init.k = "undefined" THEN NoHeaders ELSE HeadersFill(NoHeaders, init.v, 1)

(***************************************************************************)
(* Routes, contracts and client options                                    *)
(***************************************************************************)
\* defineRoute: the phantom fields are undefined at run time
defineRoute(method, path) == [method |-> method, path |-> path]

\* createContract
createContract(routes) == routes

health == defineRoute("GET", <<"/", "h">>)
getUser == defineRoute("GET", <<"/", "u", "/", ":", "i", "d">>)
createUser == defineRoute("POST", <<"/", "u">>)
putItem == defineRoute("PUT", <<"/", ":", "a", "/", "x", "-", ":", "i", "d", "_", "2">>)

\* the mappings createContract is given
Registries ==
  { [health |-> health, getUser |-> getUser,
     createUser |-> createUser, putItem |-> putItem],
    [getUser |-> getUser] }

\* the registries a client is built from
Contracts == {createContract(routes) : routes \in Registries}

\* options.baseUrl
BaseUrls == { <<"/", "v">>, <<"/", "v", "/">> }

\* options.headers when it is a HeadersInit record
StaticHeaderInits ==
  { JObj(<< <<"Authorization", "Bearer t">> >>),
    JObj(<< <<"Content-Type", "text/plain">>, <<"X-Request-ID", "abc">> >>) }

\* what options.headers() resolves to when it is a function
DynamicHeaderResults ==
  { JObj(<< <<"X-Request-ID", "abc">> >>),
    JObj(<< <<"content-type", "text/csv">> >>) }

HeadersFunction == [k |-> "function", v |-> 0]

ClientOptions ==
  [ baseUrl : BaseUrls,
    fetch : {"given", "global", "none"},
    headers : {Undefined, HeadersFunction} \cup StaticHeaderInits,
    mapResponse : BOOLEAN,
    parseError : BOOLEAN ]

\* the base URL kept as it was given
KeepTrailingSlash(u) == u

\* options.baseUrl.replace(/\/$/, '')
StripTrailingSlash(u) ==
  IF u # <<>> /\ u[Len(u)] = "/" THEN SubSeq(u, 1, Len(u) - 1) ELSE u

\* options is what the closures capture of the options object: baseUrl is the
\* constant of line 126, options.baseUrl the string the caller gave
NoClient == [made |-> FALSE, failed |-> FALSE, baseUrl |-> <<>>, methods |-> <<>>,
             headers |-> Undefined, mapResponse |-> FALSE, parseError |-> FALSE,
             options |-> [baseUrl |-> <<>>]]

\* createClient with every method closing over the route of one entry
createClientOneRoute(contract, options) ==
  IF options.fetch = "none"
  THEN [NoClient EXCEPT !.failed = TRUE]
  ELSE [made |-> TRUE, failed |-> FALSE,
        baseUrl |-> StripTrailingSlash(options.baseUrl),
        methods |-> [key \in DOMAIN contract |->
                       contract[CHOOSE last \in DOMAIN contract : TRUE]],
        headers |-> options.headers,
        mapResponse |-> options.mapResponse,
        parseError |-> options.parseError,
        options |-> [baseUrl |-> options.baseUrl]]

\* createClient: one method per registry entry, each closing over its route,
\* the stripped base URL and the options
createClient(contract, options) ==
  IF options.fetch = "none"
  THEN [NoClient EXCEPT !.failed = TRUE]
  ELSE [made |-> TRUE, failed |-> FALSE,
        baseUrl |-> StripTrailingSlash(options.baseUrl),
        methods |-> [key \in DOMAIN contract |-> contract[key]],
        headers |-> options.headers,
        mapResponse |-> options.mapResponse,
        parseError |-> options.parseError,
        options |-> [baseUrl |-> options.baseUrl]]

(***************************************************************************)
(* Arguments of a client method and responses of the transport             *)
(***************************************************************************)
ParamsCases ==
  { Undefined,
    JObj(<<>>),
    JObj(<< <<<<"i", "d">>, JStr(<<"4", " ", "2">>)>> >>),
    JObj(<< <<<<"i", "d">>, JNum(7)>>, <<<<"z">>, JStr(<<"q">>)>> >>),
    JObj(<< <<<<"a">>, JStr(<<"b", "/", ":", "c">>)>>,
            <<<<"i", "d", "_", "2">>, JStr(<<"k">>)>>,
            <<<<"z">>, JStr(<<"q">>)>>,
            <<<<"i", "d">>, Undefined>> >>) }

QueryCases ==
  { Undefined,
    JObj(<<>>),
    JObj(<< <<<<"s">>, Undefined>>, <<<<"n">>, JNum(5)>> >>),
    JObj(<< <<<<"s">>, Null>>, <<<<"t">>, JArr(<<>>)>> >>),
    JObj(<< <<<<"t">>, JArr(<<JStr(<<"b">>), JStr(<<"a", " ", "&">>), JStr(<<"b">>)>>)>>,
            <<<<"s">>, JStr(<<"?">>)>>,
            <<<<"o">>, JBool(TRUE)>> >>) }

BodyCases ==
  { JRaw("FormData"),
    JRaw("Blob"),
    JRaw("ReadableStream"),
    Null,
    JStr(<<"s">>),
    JObj(<< <<<<"n">>, JStr(<<"B", "\"">>)>>, <<<<"k">>, JArr(<<JNum(10), JBool(FALSE)>>)>> >>) }

\* the argument objects: every params with every query, and every body with
\* some of them
ArgCases ==
  [params : ParamsCases, query : QueryCases, body : {Undefined}]
  \cup [params : {Undefined, JObj(<< <<<<"i", "d">>, JNum(7)>>, <<<<"z">>, JStr(<<"q">>)>> >>)},
        query : {Undefined, JObj(<< <<<<"s">>, Undefined>>, <<<<"n">>, JNum(5)>> >>)},
        body : BodyCases]

\* the argument objects a method is called with: the route's type forbids a
\* body on GET and HEAD
ArgsFor(route) ==
  {a \in ArgCases : a.body.k # "undefined" => route.method \notin {"GET", "HEAD"}}

NoArgs == [params |-> Undefined, query |-> Undefined, body |-> Undefined]

Statuses == {200, 204, 299, 300, 404}

\* the content-type of a response, "" for a response without one
ContentTypes == {"", "application/json", "text/plain", "application/hal+json"}

BodyTexts ==
  { <<>>,
    <<"h", "i">>,
    <<"5">>,
    <<"{", "\"", "m", "\"", ":", "\"", "x", "\"", "}">> }

ResponseHeaders(ct) == IF ct = "" THEN NoHeaders ELSE NewHeaders(JObj(<< <<"content-type", ct>> >>))

Responses ==
  { [status |-> st, headers |-> ResponseHeaders(ct), text |-> t] :
      st \in Statuses, ct \in ContentTypes, t \in BodyTexts }

NoResponse == [status |-> 0, headers |-> NoHeaders, text |-> <<>>]

\* Response.ok
Ok(res) == res.status >= 200 /\ res.status <= 299

\* what mapResponse and parseError, functions of the caller, may resolve to
CallbackValues == { Undefined, JStr(<<"m">>), JObj(<< <<<<"d">>, JNum(1)>> >>) }

\* failures raised outside this code, opaque to it
Failure(who) == [k |-> "Failure", v |-> who]

\* what the transport function may throw or reject with
TransportFailures == {Failure("fetch"), Failure("abort")}

HttpError(status, body) == [k |-> "HttpError", v |-> [status |-> status, body |-> body]]

(***************************************************************************)
(* The steps of a client method (the async function buildMethod returns)   *)
(***************************************************************************)
\* lines 148-152: [ok, s], s the path with its query string, or the key of
\* the placeholder interpolatePath throws for
BuildPath(route, params, query) ==
  LET ip == IF Truthy(params)
            THEN interpolatePath(route.path, params)
            ELSE [ok |-> TRUE, s |-> route.path]
  IN IF ~ip.ok THEN ip
     ELSE IF Truthy(query)
     THEN LET qs == buildQuery(query)
          IN IF qs # <<>> THEN [ok |-> TRUE, s |-> ip.s \o <<"?">> \o qs] ELSE ip
     ELSE ip

IsRawBody(body) == body.k = "raw" /\ body.v \in RawClasses

\* the Headers object with the JSON content-type set whatever the body
RequestHeadersAlwaysJson(staticHeaders, body) ==
  HeadersSet(NewHeaders(staticHeaders), "Content-Type", "application/json")

\* lines 157-162: the Headers object of the request
RequestHeaders(staticHeaders, body) ==
  LET headers == NewHeaders(staticHeaders)
  IN IF body.k # "undefined" /\ ~IsRawBody(body)
     THEN HeadersSet(headers, "Content-Type", "application/json")
     ELSE headers

\* the body handed over as it was given
RequestBodyUnencoded(body) == body

\* lines 167-172: the body of the request
RequestBody(body) ==
  IF body.k = "undefined" THEN Undefined
  ELSE IF IsRawBody(body) THEN body
  ELSE JStr(JSONStringify(body))

\* lines 164-173: what fetchFn is called with
BuildRequest(route, baseUrl, path, staticHeaders, body) ==
  [url |-> baseUrl \o path,
   method |-> route.method,
   headers |-> RequestHeaders(staticHeaders, body),
   body |-> RequestBody(body)]

NoRequest == [url |-> <<>>, method |-> "", headers |-> NoHeaders, body |-> Undefined]

\* !ct for ct = res.headers.get('content-type')
NoContentType(res) ==
  \/ ~HeadersHas(res.headers, "content-type")
  \/ res.headers["content-type"] = <<"">>

\* the interpretation with mapResponse consulted before res.ok
InterpretMapFirst(mapResponse, parseError, res) ==
  IF mapResponse THEN "awaitMapResponse"
  ELSE IF ~Ok(res) THEN (IF parseError THEN "awaitParseError" ELSE "awaitText")
  ELSE IF res.status = 204 THEN "resolved"
  ELSE IF NoContentType(res) THEN "resolved"
  ELSE "awaitJson"

\* the interpretation without the test for status 204
InterpretNo204(mapResponse, parseError, res) ==
  IF ~Ok(res) THEN (IF parseError THEN "awaitParseError" ELSE "awaitText")
  ELSE IF mapResponse THEN "awaitMapResponse"
  ELSE IF NoContentType(res) THEN "resolved"
  ELSE "awaitJson"

\* the interpretation with the defaults for 204 and for a missing
\* content-type ahead of mapResponse
InterpretDefaultsFirst(mapResponse, parseError, res) ==
  IF ~Ok(res) THEN (IF parseError THEN "awaitParseError" ELSE "awaitText")
  ELSE IF res.status = 204 THEN "resolved"
  ELSE IF NoContentType(res) THEN "resolved"
  ELSE IF mapResponse THEN "awaitMapResponse"
  ELSE "awaitJson"

\* the interpretation that never consults parseError
InterpretNoParseError(mapResponse, parseError, res) ==
  IF ~Ok(res) THEN "awaitText"
  ELSE IF mapResponse THEN "awaitMapResponse"
  ELSE IF res.status = 204 THEN "resolved"
  ELSE IF NoContentType(res) THEN "resolved"
  ELSE "awaitJson"

\* lines 175-187: what the method does with a response: the promise it goes
\* on to await, or "resolved" when it returns undefined at once
Interpret(mapResponse, parseError, res) ==
  IF ~Ok(res) THEN (IF parseError THEN "awaitParseError" ELSE "awaitText")
  ELSE IF mapResponse THEN "awaitMapResponse"
  ELSE IF res.status = 204 THEN "resolved"
  ELSE IF NoContentType(res) THEN "resolved"
  ELSE "awaitJson"

\* the error body without the attempt at JSON
ErrorBodyTextOnly(text) == JStr(text)

\* parseResponseBody once res.text() has settled: text is '' when it failed
ErrorBody(text) ==
  LET r == JSONParse(text)
  IN IF r.ok THEN r.v ELSE JStr(text)

NoOutcome == [kind |-> "pending", v |-> Undefined]
Resolved(val) == [kind |-> "resolved", v |-> val]
Rejected(err) == [kind |-> "rejected", v |-> err]

NoCalls == [headers |-> 0, fetch |-> 0, mapResponse |-> 0, parseError |-> 0,
            text |-> 0, json |-> 0]

\* an invocation: where it is, the method it is of, its locals, the request
\* the transport holds, the response, the response it passed to mapResponse
\* or parseError, the callbacks it made, what the promise it awaited settled
\* with, how it settled
Idle ==
  [pc |-> "idle", key |-> "", args |-> NoArgs, path |-> <<>>,
   staticHeaders |-> Undefined, req |-> NoRequest, res |-> NoResponse,
   arg |-> NoResponse, got |-> Undefined, calls |-> NoCalls, out |-> NoOutcome]

\* invocations run one at a time
Slots == {1}

MaxCalls == 2

VARIABLES client, inv, count

vars == <<client, inv, count>>

Init ==
  /\ client = NoClient
  /\ inv = [s \in Slots |-> Idle]
  /\ count = [calls |-> 0, fetch |-> 0, early |-> 0]

CreateClient(contract, options) ==
  /\ ~client.made /\ ~client.failed
  /\ client' = createClient(contract, options)
  /\ UNCHANGED <<inv, count>>

\* the invocation once its headers are known: lines 157-173, up to the await
\* of fetchFn
Send(i, staticHeaders) ==
  [i EXCEPT !.pc = "awaitFetch",
            !.staticHeaders = staticHeaders,
            !.req = BuildRequest(client.methods[i.key], client.baseUrl, i.path,
                                 staticHeaders, i.args.body),
            !.calls.fetch = @ + 1]

\* the method with the header function awaited ahead of the path: the path
\* is not built, nor a missing parameter met, before the headers are known
CallHeadersFirst(s, key, args) ==
  /\ client.made
  /\ inv[s].pc = "idle"
  /\ count.calls < MaxCalls
  /\ key \in DOMAIN client.methods
  /\ LET bp == BuildPath(client.methods[key], args.params, args.query)
         started == [Idle EXCEPT !.key = key, !.args = args]
     IN IF client.headers.k = "function"
        THEN /\ inv' = [inv EXCEPT ![s] = [started EXCEPT
                          !.pc = "awaitHeaders",
                          !.calls.headers = @ + 1]]
             /\ count' = [count EXCEPT !.calls = @ + 1]
        ELSE IF ~bp.ok
        THEN /\ inv' = [inv EXCEPT ![s] = [started EXCEPT
                          !.pc = "done",
                          !.out = Rejected(MissingPathParam(bp.s))]]
             /\ count' = [count EXCEPT !.calls = @ + 1, !.early = @ + 1]
        ELSE /\ inv' = [inv EXCEPT ![s] = Send([started EXCEPT !.path = bp.s],
                                               client.headers)]
             /\ count' = [count EXCEPT !.calls = @ + 1, !.fetch = @ + 1]
  /\ UNCHANGED client

\* client[key](args): lines 141-156, and on to fetchFn when the headers are
\* not a function
Call(s, key, args) ==
  /\ client.made
  /\ inv[s].pc = "idle"
  /\ count.calls < MaxCalls
  /\ key \in DOMAIN client.methods
  /\ LET bp == BuildPath(client.methods[key], args.params, args.query)
         started == [Idle EXCEPT !.key = key, !.args = args]
     IN IF ~bp.ok
        THEN /\ inv' = [inv EXCEPT ![s] = [started EXCEPT
                          !.pc = "done",
                          !.out = Rejected(MissingPathParam(bp.s))]]
             /\ count' = [count EXCEPT !.calls = @ + 1, !.early = @ + 1]
        ELSE IF client.headers.k = "function"
        THEN /\ inv' = [inv EXCEPT ![s] = [started EXCEPT
                          !.pc = "awaitHeaders",
                          !.path = bp.s,
                          !.calls.headers = @ + 1]]
             /\ count' = [count EXCEPT !.calls = @ + 1]
        ELSE /\ inv' = [inv EXCEPT ![s] = Send([started EXCEPT !.path = bp.s],
                                               client.headers)]
             /\ count' = [count EXCEPT !.calls = @ + 1, !.fetch = @ + 1]
  /\ UNCHANGED client

\* one resolution of options.headers() handed to every invocation that
\* awaits its headers
HeadersResolveShared(s, h) ==
  /\ inv[s].pc = "awaitHeaders"
  /\ inv' = [t \in DOMAIN inv |->
               IF inv[t].pc = "awaitHeaders" THEN Send(inv[t], h) ELSE inv[t]]
  /\ count' = [count EXCEPT !.fetch =
                 @ + Cardinality({t \in DOMAIN inv : inv[t].pc = "awaitHeaders"})]
  /\ UNCHANGED client

\* options.headers() resolves
HeadersResolve(s, h) ==
  /\ inv[s].pc = "awaitHeaders"
  /\ inv' = [inv EXCEPT ![s] = Send(inv[s], h)]
  /\ count' = [count EXCEPT !.fetch = @ + 1]
  /\ UNCHANGED client

\* a failure of options.headers() noticed only after the transport was called
HeadersRejectAfterFetch(s) ==
  /\ inv[s].pc = "awaitHeaders"
  /\ inv' = [inv EXCEPT ![s].pc = "done",
                        ![s].calls.fetch = @ + 1,
                        ![s].out = Rejected(Failure("headers"))]
  /\ count' = [count EXCEPT !.early = @ + 1, !.fetch = @ + 1]
  /\ UNCHANGED client

\* options.headers() throws or rejects
HeadersReject(s) ==
  /\ inv[s].pc = "awaitHeaders"
  /\ inv' = [inv EXCEPT ![s].pc = "done",
                        ![s].out = Rejected(Failure("headers"))]
  /\ count' = [count EXCEPT !.early = @ + 1]
  /\ UNCHANGED client

\* the locals of lines 142-172 are not read after the await of fetchFn, and
\* the transport has answered the request
AfterFetch(i) ==
  [i EXCEPT !.args = NoArgs, !.path = <<>>, !.staticHeaders = Undefined,
            !.req = NoRequest]

\* fetchFn resolves with a response: lines 175-187 up to the next await
FetchResolve(s, res) ==
  /\ inv[s].pc = "awaitFetch"
  /\ LET next == Interpret(client.mapResponse, client.parseError, res)
         i == [AfterFetch(inv[s]) EXCEPT !.res = res]
     IN inv' = [inv EXCEPT ![s] =
          CASE next = "resolved" ->
                 [i EXCEPT !.pc = "done", !.out = Resolved(Undefined)]
            [] next = "awaitParseError" ->
                 [i EXCEPT !.pc = next, !.arg = res, !.calls.parseError = @ + 1]
            [] next = "awaitMapResponse" ->
                 [i EXCEPT !.pc = next, !.arg = res, !.calls.mapResponse = @ + 1]
            [] next = "awaitText" ->
                 [i EXCEPT !.pc = next, !.calls.text = @ + 1]
            [] next = "awaitJson" ->
                 [i EXCEPT !.pc = next, !.calls.json = @ + 1]]
  /\ UNCHANGED <<client, count>>

\* a failure of fetchFn wrapped in an HttpError
FetchRejectWrapped(s, err) ==
  /\ inv[s].pc = "awaitFetch"
  /\ inv' = [inv EXCEPT ![s] = [AfterFetch(inv[s]) EXCEPT
               !.pc = "done",
               !.got = err,
               !.out = Rejected(HttpError(0, err))]]
  /\ UNCHANGED <<client, count>>

\* a failure of fetchFn answered by calling it once more
FetchRejectRetry(s, err) ==
  /\ inv[s].pc = "awaitFetch"
  /\ IF inv[s].calls.fetch < 2
     THEN /\ inv' = [inv EXCEPT ![s].calls.fetch = @ + 1]
          /\ count' = [count EXCEPT !.fetch = @ + 1]
     ELSE /\ inv' = [inv EXCEPT ![s] = [AfterFetch(inv[s]) EXCEPT
                       !.pc = "done", !.got = err, !.out = Rejected(err)]]
          /\ count' = count
  /\ UNCHANGED client

\* fetchFn throws or rejects with err: the await of line 164 rethrows it
FetchReject(s, err) ==
  /\ inv[s].pc = "awaitFetch"
  /\ inv' = [inv EXCEPT ![s] = [AfterFetch(inv[s]) EXCEPT
               !.pc = "done",
               !.got = err,
               !.out = Rejected(err)]]
  /\ UNCHANGED <<client, count>>

\* options.parseError(res) resolves: line 179
ParseErrorResolve(s, val) ==
  /\ inv[s].pc = "awaitParseError"
  /\ inv' = [inv EXCEPT ![s].pc = "done",
                        ![s].got = val,
                        ![s].out = Rejected(HttpError(inv[s].res.status, val))]
  /\ UNCHANGED <<client, count>>

\* options.parseError(res) throws or rejects
ParseErrorReject(s) ==
  /\ inv[s].pc = "awaitParseError"
  /\ inv' = [inv EXCEPT ![s].pc = "done",
                        ![s].out = Rejected(Failure("parseError"))]
  /\ UNCHANGED <<client, count>>

\* the HttpError handed back as the value of the method, not thrown
TextSettleReturnsError(s, readable) ==
  /\ inv[s].pc = "awaitText"
  /\ LET text == IF readable THEN inv[s].res.text ELSE <<>>
     IN inv' = [inv EXCEPT ![s].pc = "done",
                           ![s].got = JStr(text),
                           ![s].out = Resolved(HttpError(inv[s].res.status,
                                                         ErrorBody(text)))]
  /\ UNCHANGED <<client, count>>

\* parseResponseBody: res.text() settles, with '' in place of a failure
TextSettle(s, readable) ==
  /\ inv[s].pc = "awaitText"
  /\ LET text == IF readable THEN inv[s].res.text ELSE <<>>
     IN inv' = [inv EXCEPT ![s].pc = "done",
                           ![s].got = JStr(text),
                           ![s].out = Rejected(HttpError(inv[s].res.status,
                                                         ErrorBody(text)))]
  /\ UNCHANGED <<client, count>>

\* the promise of options.mapResponse(res), returned at line 182, resolves
MapResponseResolve(s, val) ==
  /\ inv[s].pc = "awaitMapResponse"
  /\ inv' = [inv EXCEPT ![s].pc = "done",
                        ![s].got = val,
                        ![s].out = Resolved(val)]
  /\ UNCHANGED <<client, count>>

\* options.mapResponse(res) throws or rejects
MapResponseReject(s) ==
  /\ inv[s].pc = "awaitMapResponse"
  /\ inv' = [inv EXCEPT ![s].pc = "done",
                        ![s].out = Rejected(Failure("mapResponse"))]
  /\ UNCHANGED <<client, count>>

\* res.json() with the text in place of a value when the body is not JSON
JsonSettleFallsBack(s) ==
  /\ inv[s].pc = "awaitJson"
  /\ LET r == JSONParse(inv[s].res.text)
     IN inv' = [inv EXCEPT ![s].pc = "done",
                           ![s].got = JStr(inv[s].res.text),
                           ![s].out = IF r.ok THEN Resolved(r.v)
                                      ELSE Resolved(JStr(inv[s].res.text))]
  /\ UNCHANGED <<client, count>>

\* the promise of res.json(), returned at line 187, settles on the body read
JsonSettle(s) ==
  /\ inv[s].pc = "awaitJson"
  /\ LET r == JSONParse(inv[s].res.text)
     IN inv' = [inv EXCEPT ![s].pc = "done",
                           ![s].got = JStr(inv[s].res.text),
                           ![s].out = IF r.ok THEN Resolved(r.v) ELSE Rejected(r.v)]
  /\ UNCHANGED <<client, count>>

\* res.json() rejects because the body cannot be read
JsonReject(s) ==
  /\ inv[s].pc = "awaitJson"
  /\ inv' = [inv EXCEPT ![s].pc = "done",
                        ![s].out = Rejected(Failure("body"))]
  /\ UNCHANGED <<client, count>>

\* the caller has taken the settled result: the invocation is over
Collect(s) ==
  /\ inv[s].pc = "done"
  /\ inv' = [inv EXCEPT ![s] = Idle]
  /\ UNCHANGED <<client, count>>

Next ==
  \/ \E contract \in Contracts, options \in ClientOptions : CreateClient(contract, options)
  \/ \E s \in Slots, key \in DOMAIN client.methods :
        \E args \in ArgsFor(client.methods[key]) : Call(s, key, args)
  \/ \E s \in Slots, h \in DynamicHeaderResults : HeadersResolve(s, h)
  \/ \E s \in Slots : HeadersReject(s)
  \/ \E s \in Slots, res \in Responses : FetchResolve(s, res)
  \/ \E s \in Slots, err \in TransportFailures : FetchReject(s, err)
  \/ \E s \in Slots, val \in CallbackValues : ParseErrorResolve(s, val)
  \/ \E s \in Slots : ParseErrorReject(s)
  \/ \E s \in Slots, readable \in BOOLEAN : TextSettle(s, readable)
  \/ \E s \in Slots, val \in CallbackValues : MapResponseResolve(s, val)
  \/ \E s \in Slots : MapResponseReject(s)
  \/ \E s \in Slots : JsonSettle(s)
  \/ \E s \in Slots : JsonReject(s)
  \/ \E s \in Slots : Collect(s)

Spec == Init /\ [][Next]_vars

(***************************************************************************)
(* Concurrent invocations: the caller starts a second invocation while the *)
(* first is suspended at an await. The steps are those of Spec, taken by   *)
(* two invocations in any order, on fewer inputs.                          *)
(***************************************************************************)
ConcSlots == {1, 2}

ConcOptions ==
  [ baseUrl : {<<"/", "v", "/">>},
    fetch : {"given"},
    headers : {HeadersFunction,
               JObj(<< <<"Content-Type", "text/plain">>, <<"X-Request-ID", "abc">> >>)},
    mapResponse : BOOLEAN,
    parseError : BOOLEAN ]

ConcArgCases ==
  { NoArgs,
    [params |-> JObj(<< <<<<"i", "d">>, JNum(7)>>, <<<<"z">>, JStr(<<"q">>)>> >>),
     query |-> JObj(<< <<<<"s">>, Undefined>>, <<<<"n">>, JNum(5)>> >>),
     body |-> Undefined],
    [params |-> Undefined,
     query |-> Undefined,
     body |-> JStr(<<"s">>)] }

ConcArgsFor(route) == ArgsFor(route) \cap ConcArgCases

ConcResponses ==
  { [status |-> 200, headers |-> ResponseHeaders("application/json"),
     text |-> <<"{", "\"", "m", "\"", ":", "\"", "x", "\"", "}">>],
    [status |-> 200, headers |-> ResponseHeaders("application/json"),
     text |-> <<"h", "i">>],
    [status |-> 204, headers |-> NoHeaders, text |-> <<>>],
    [status |-> 404, headers |-> ResponseHeaders("text/plain"), text |-> <<"5">>] }

ConcCallbackValues == { Undefined, JStr(<<"m">>) }

ConcInit ==
  /\ client = NoClient
  /\ inv = [s \in ConcSlots |-> Idle]
  /\ count = [calls |-> 0, fetch |-> 0, early |-> 0]

ConcNext ==
  \/ \E contract \in Contracts, options \in ConcOptions : CreateClient(contract, options)
  \/ \E s \in ConcSlots, key \in DOMAIN client.methods :
        \E args \in ConcArgsFor(client.methods[key]) : Call(s, key, args)
  \/ \E s \in ConcSlots, h \in DynamicHeaderResults : HeadersResolve(s, h)
  \/ \E s \in ConcSlots : HeadersReject(s)
  \/ \E s \in ConcSlots, res \in ConcResponses : FetchResolve(s, res)
  \/ \E s \in ConcSlots, err \in TransportFailures : FetchReject(s, err)
  \/ \E s \in ConcSlots, val \in ConcCallbackValues : ParseErrorResolve(s, val)
  \/ \E s \in ConcSlots : ParseErrorReject(s)
  \/ \E s \in ConcSlots, readable \in BOOLEAN : TextSettle(s, readable)
  \/ \E s \in ConcSlots, val \in ConcCallbackValues : MapResponseResolve(s, val)
  \/ \E s \in ConcSlots : MapResponseReject(s)
  \/ \E s \in ConcSlots : JsonSettle(s)
  \/ \E s \in ConcSlots : JsonReject(s)
  \/ \E s \in ConcSlots : Collect(s)

ConcSpec == ConcInit /\ [][ConcNext]_vars

(***************************************************************************)
(* Invocations whose awaited promises settle: the steps of Spec on fewer   *)
(* inputs, with the header function, the transport and the body decoders   *)
(* of the response never left pending for ever. Nothing is assumed of      *)
(* mapResponse and parseError, nor of the caller.                          *)
(***************************************************************************)
\* the responses of the transport: success with a JSON body, with a body
\* that is not JSON, with no content; failure with a text body
LiveResponses ==
  { [status |-> 200, headers |-> ResponseHeaders("application/json"), text |-> <<"5">>],
    [status |-> 200, headers |-> ResponseHeaders("application/json"),
     text |-> <<"h", "i">>],
    [status |-> 204, headers |-> NoHeaders, text |-> <<>>],
    [status |-> 404, headers |-> ResponseHeaders("text/plain"), text |-> <<"5">>] }

\* options.headers() settles
HeadersSettle ==
  \E s \in Slots :
    \/ \E h \in DynamicHeaderResults : HeadersResolve(s, h)
    \/ HeadersReject(s)

\* fetchFn settles
FetchSettle ==
  \E s \in Slots :
    \/ \E res \in LiveResponses : FetchResolve(s, res)
    \/ \E err \in TransportFailures : FetchReject(s, err)

\* options.parseError(res) or options.mapResponse(res) settles
OverrideSettle ==
  \E s \in Slots :
    \/ \E val \in ConcCallbackValues : ParseErrorResolve(s, val)
    \/ ParseErrorReject(s)
    \/ \E val \in ConcCallbackValues : MapResponseResolve(s, val)
    \/ MapResponseReject(s)

\* res.text() or res.json() settles
BodySettle ==
  \E s \in Slots :
    \/ \E readable \in BOOLEAN : TextSettle(s, readable)
    \/ JsonSettle(s)
    \/ JsonReject(s)

LiveNext ==
  \/ \E contract \in Contracts, options \in ConcOptions : CreateClient(contract, options)
  \/ \E s \in Slots, key \in DOMAIN client.methods :
        \E args \in ConcArgsFor(client.methods[key]) : Call(s, key, args)
  \/ HeadersSettle
  \/ FetchSettle
  \/ OverrideSettle
  \/ BodySettle
  \/ \E s \in Slots : Collect(s)

LiveSpec ==
  /\ Init /\ [][LiveNext]_vars
  /\ WF_vars(HeadersSettle) /\ WF_vars(FetchSettle) /\ WF_vars(BodySettle)

(***************************************************************************)
(* Vocabulary of the properties                                            *)
(***************************************************************************)
\* the locals of an invocation (args, path, headers) are those of its call
HasLocals(i) ==
  \/ i.pc \in {"awaitHeaders", "awaitFetch"}
  \/ i.pc = "done" /\ i.calls.fetch = 0

\* the transport holds the request of the invocation
InFlight(i) == i.pc = "awaitFetch"

\* the invocation has settled after the transport answered
Answered(i) == i.pc = "done" /\ i.res # NoResponse

RouteOf(i) == client.methods[i.key]

RECURSIVE PlaceholderKeys(_, _)
\* the placeholder names of a template, from position i on, in order
PlaceholderKeys(path, i) ==
  IF i > Len(path) THEN <<>>
  ELSE IF PlaceholderAt(path, i)
  THEN LET n == IdentRun(path, i + 1)
       IN <<SubSeq(path, i + 1, i + n)>> \o PlaceholderKeys(path, i + n + 1)
  ELSE PlaceholderKeys(path, i + 1)

Range(f) == {f[x] : x \in DOMAIN f}

\* params supplies a value for the placeholder
Supplied(params, key) ==
  /\ params.k = "object"
  /\ \E n \in 1..Len(params.v) : params.v[n][1] = key /\ params.v[n][2].k # "undefined"

MissingKeys(path, params) ==
  {key \in Range(PlaceholderKeys(path, 1)) : ~Supplied(params, key)}

SuppliedValue(params, key) ==
  LET n == CHOOSE n \in 1..Len(params.v) : params.v[n][1] = key
  IN params.v[n][2]

RECURSIVE Substituted(_, _, _)
\* the template from position i on, each placeholder replaced by the
\* percent-encoded string form of its value
Substituted(path, params, i) ==
  IF i > Len(path) THEN <<>>
  ELSE IF PlaceholderAt(path, i)
  THEN LET n == IdentRun(path, i + 1)
       IN encodeURIComponent(SuppliedValue(params, SubSeq(path, i + 1, i + n)))
          \o Substituted(path, params, i + n + 1)
  ELSE <<path[i]>> \o Substituted(path, params, i + 1)

Occurrences(str, c) == Cardinality({j \in 1..Len(str) : str[j] = c})

\* the first position of c in str, 0 when there is none
FirstIndex(str, c) ==
  IF \E j \in 1..Len(str) : str[j] = c
  THEN CHOOSE j \in 1..Len(str) : str[j] = c /\ \A m \in 1..(j - 1) : str[m] # c
  ELSE 0

RECURSIVE SplitOn(_, _)
SplitOn(str, c) ==
  LET j == FirstIndex(str, c)
  IN IF j = 0 THEN <<str>>
     ELSE <<SubSeq(str, 1, j - 1)>> \o SplitOn(SubSeq(str, j + 1, Len(str)), c)

\* the part of a URL before its first "?" and the part after it
BeforeQuery(url) ==
  LET j == FirstIndex(url, "?") IN IF j = 0 THEN url ELSE SubSeq(url, 1, j - 1)
AfterQuery(url) ==
  LET j == FirstIndex(url, "?") IN IF j = 0 THEN <<>> ELSE SubSeq(url, j + 1, Len(url))

\* the name=value pairs of the query string of a URL, in order
UrlPairs(url) ==
  LET qs == AfterQuery(url)
      parts == IF qs = <<>> THEN <<>> ELSE SplitOn(qs, "&")
  IN [n \in 1..Len(parts) |->
        LET e == FirstIndex(parts[n], "=")
        IN IF e = 0 THEN <<parts[n], <<>>>>
           ELSE <<SubSeq(parts[n], 1, e - 1), SubSeq(parts[n], e + 1, Len(parts[n]))>>]

\* the values the query string gives under a name, in order
UrlValues(url, name) ==
  LET own == SelectSeq(UrlPairs(url), LAMBDA pr : pr[1] = name)
  IN [n \in 1..Len(own) |-> own[n][2]]

\* the content-type the caller's headers give, <<>> when they give none
CallerContentType(init) ==
  IF init.k # "object" THEN <<>>
  ELSE LET own == SelectSeq(init.v, LAMBDA e : LowerCase(e[1]) = "content-type")
       IN [n \in 1..Len(own) |-> own[n][2]]

\* the request carries exactly the caller's headers
ExactlyCallerHeaders(headers, init) ==
  IF init.k # "object" THEN DOMAIN headers = {}
  ELSE /\ DOMAIN headers = {LowerCase(init.v[n][1]) : n \in 1..Len(init.v)}
       /\ \A n \in 1..Len(init.v) : headers[LowerCase(init.v[n][1])] = <<init.v[n][2]>>

\* a content-type that indicates JSON
JsonTypes == {"application/json", "application/hal+json"}

Is2xx(status) == status >= 200 /\ status <= 299

HasContentType(res) == "content-type" \in DOMAIN res.headers

(***************************************************************************)
(* C1: whenever a client method is invoked on a route whose template has a *)
(* placeholder that is given no value (the params mapping lacks the key,   *)
(* or params is omitted altogether), the invocation is rejected with the   *)
(* missing-path-parameter error naming such a placeholder.                 *)
(***************************************************************************)
C1_MissingParamRejected ==
  \A s \in Slots :
    LET i == inv[s]
    IN (HasLocals(i) /\ MissingKeys(RouteOf(i).path, i.args.params) # {})
       => /\ i.out.kind = "rejected"
          /\ \E key \in MissingKeys(RouteOf(i).path, i.args.params) :
               i.out.v = MissingPathParam(key)

(***************************************************************************)
(* C2: with no mapResponse, a 2xx response other than 204 whose            *)
(* content-type is present but does not indicate JSON resolves the method  *)
(* to the body as raw text, with no JSON parse and no rejection.           *)
(***************************************************************************)
C2_NonJsonResolvesToText ==
  \A s \in Slots :
    LET i == inv[s]
    IN (/\ Answered(i)
        /\ ~client.mapResponse
        /\ Is2xx(i.res.status) /\ i.res.status # 204
        /\ HasContentType(i.res)
        /\ \A n \in 1..Len(i.res.headers["content-type"]) :
             i.res.headers["content-type"][n] \notin JsonTypes \cup {""})
       => /\ i.calls.json = 0
          /\ i.out = Resolved(JStr(i.res.text))

(***************************************************************************)
(* C3: when the caller's headers (static, or the result of the header      *)
(* function) contain a content-type, the request handed to the transport   *)
(* carries exactly that value, whatever the body; application/json is set  *)
(* only when the caller's headers have no content-type.                    *)
(***************************************************************************)
C3_CallerContentTypeWins ==
  \A s \in Slots :
    LET i == inv[s]
    IN (InFlight(i) /\ CallerContentType(i.staticHeaders) # <<>>)
       => /\ HeadersHas(i.req.headers, "content-type")
          /\ i.req.headers["content-type"] = CallerContentType(i.staticHeaders)

(***************************************************************************)
(* C4 as stated: an invocation whose transport call completed is rejected  *)
(* with an HttpError if and only if the response status is outside         *)
(* 200..299, and the HttpError carries the response status.                *)
(***************************************************************************)
C4_HttpErrorIffNot2xx ==
  \A s \in Slots :
    LET i == inv[s]
    IN Answered(i)
       => /\ (i.out.kind = "rejected" /\ i.out.v.k = "HttpError")
               <=> ~Is2xx(i.res.status)
          /\ i.out.v.k = "HttpError" => i.out.v.v.status = i.res.status

\* the error payload the invocation decoded: what parseError gave, else the
\* text read, parsed as JSON when it is JSON
DecodedErrorPayload(i) ==
  IF client.parseError THEN i.got
  ELSE IF JSONParse(i.got.v).ok THEN JSONParse(i.got.v).v
  ELSE i.got

(***************************************************************************)
(* C4 amended: an invocation whose transport call completed is rejected    *)
(* with an HttpError if and only if the response status is outside         *)
(* 200..299 and the parseError override, when there is one, did not itself *)
(* fail (its failure is what the invocation is then rejected with); the    *)
(* HttpError has the response status and the decoded error payload, and    *)
(* it is raised, never returned.                                           *)
(***************************************************************************)
C4_HttpErrorIffNot2xxAndDecoded ==
  \A s \in Slots :
    LET i == inv[s]
        http == i.out.v.k = "HttpError"
    IN Answered(i)
       => /\ http <=> (~Is2xx(i.res.status) /\ i.out.v # Failure("parseError"))
          /\ http => /\ i.out.kind = "rejected"
                     /\ i.out.v.v.status = i.res.status
                     /\ i.out.v.v.body = DecodedErrorPayload(i)
          /\ ~Is2xx(i.res.status) => i.out.kind = "rejected"
          /\ i.out.v = Failure("parseError") => client.parseError

C4_Witness ==
  \E s \in Slots :
    /\ Answered(inv[s])
    /\ ~client.parseError
    /\ inv[s].res.status = 404
    /\ inv[s].out.v.k = "HttpError"
    /\ inv[s].out.v.v.body.k = "object"

(***************************************************************************)
(* C5: when params supplies a value for every placeholder of the template, *)
(* the invocation is not rejected for a missing parameter and the URL      *)
(* handed to the transport is the base URL followed by the template with   *)
(* every placeholder replaced by the percent-encoded string form of its    *)
(* value (then the query string, if any); no placeholder token remains,    *)
(* and entries the template does not reference change nothing.             *)
(***************************************************************************)
C5_UrlIsSubstitutedTemplate ==
  \A s \in Slots :
    LET i == inv[s]
    IN (/\ HasLocals(i)
        /\ i.args.params.k = "object"
        /\ MissingKeys(RouteOf(i).path, i.args.params) = {})
       => /\ i.out.v.k # "Error"
          /\ InFlight(i) =>
               LET url == i.req.url
                   want == client.baseUrl \o Substituted(RouteOf(i).path, i.args.params, 1)
               IN /\ Len(url) >= Len(want)
                  /\ SubSeq(url, 1, Len(want)) = want
                  /\ Len(url) > Len(want) => url[Len(want) + 1] = "?"
                  /\ \A j \in 1..Len(url) : ~PlaceholderAt(url, j)

C5_Witness ==
  \E s \in Slots :
    LET i == inv[s]
    IN /\ InFlight(i)
       /\ i.args.params.k = "object"
       /\ Len(PlaceholderKeys(RouteOf(i).path, 1)) = 2
       /\ MissingKeys(RouteOf(i).path, i.args.params) = {}
       /\ \E n \in 1..Len(i.args.params.v) :
            /\ i.args.params.v[n][1] \notin Range(PlaceholderKeys(RouteOf(i).path, 1))
            /\ i.args.params.v[n][2].k = "string"
       /\ Occurrences(i.req.url, "%") > 0

\* the value of a query entry yields at least one pair
Survives(val) ==
  /\ val.k \notin {"null", "undefined"}
  /\ val.k = "array" => val.v # <<>>

(***************************************************************************)
(* C6: a query key whose value is null or undefined is absent from the     *)
(* URL; when no entry survives (no query, an empty one, only null,         *)
(* undefined or empty arrays) the URL is exactly base URL + path, with no  *)
(* "?"; otherwise the query string follows the path after a single "?".    *)
(***************************************************************************)
C6_NullsDroppedAndNoBareSeparator ==
  \A s \in Slots :
    LET i == inv[s]
        q == i.args.query
        url == i.req.url
        entries == IF q.k = "object" THEN q.v ELSE <<>>
        plain == client.baseUrl \o BuildPath(RouteOf(i), i.args.params, Undefined).s
    IN InFlight(i)
       => /\ \A n \in 1..Len(entries) :
               entries[n][2].k \in {"null", "undefined"}
               => UrlValues(url, FormEncode(entries[n][1])) = <<>>
          /\ (\A n \in 1..Len(entries) : ~Survives(entries[n][2]))
               => url = plain /\ Occurrences(url, "?") = 0
          /\ (\E n \in 1..Len(entries) : Survives(entries[n][2]))
               => /\ Occurrences(url, "?") = 1
                  /\ BeforeQuery(url) = plain
                  /\ AfterQuery(url) # <<>>

C6_Witness ==
  \E s \in Slots :
    LET i == inv[s]
    IN /\ InFlight(i)
       /\ i.args.query.k = "object"
       /\ \E n \in 1..Len(i.args.query.v) : i.args.query.v[n][2].k = "null"
       /\ \E n \in 1..Len(i.args.query.v) : i.args.query.v[n][2] = JArr(<<>>)
       /\ Occurrences(i.req.url, "?") = 0

(***************************************************************************)
(* C7: a sequence of length n under a query key gives exactly n pairs of   *)
(* that key in the query string, in the order of the sequence; a scalar    *)
(* gives exactly one pair of its key.                                      *)
(***************************************************************************)
C7_ArraysRepeatTheKeyInOrder ==
  \A s \in Slots :
    LET i == inv[s]
        q == i.args.query
    IN (InFlight(i) /\ q.k = "object")
       => \A n \in 1..Len(q.v) :
            LET val == q.v[n][2]
                pairs == UrlValues(i.req.url, FormEncode(q.v[n][1]))
            IN /\ val.k = "array"
                    => pairs = [j \in 1..Len(val.v) |-> FormEncode(StringOf(val.v[j]))]
               /\ val.k \in {"string", "number", "boolean"}
                    => pairs = <<FormEncode(StringOf(val))>>

C7_Witness ==
  \E s \in Slots :
    LET i == inv[s]
    IN /\ InFlight(i)
       /\ i.args.query.k = "object"
       /\ \E n \in 1..Len(i.args.query.v) :
            /\ i.args.query.v[n][2].k = "array"
            /\ Len(UrlValues(i.req.url, FormEncode(i.args.query.v[n][1]))) = 3
       /\ \E n \in 1..Len(i.args.query.v) :
            /\ i.args.query.v[n][2].k = "boolean"
            /\ Len(UrlValues(i.req.url, FormEncode(i.args.query.v[n][1]))) = 1

(***************************************************************************)
(* C8: with a body that is not FormData, Blob or ReadableStream and no     *)
(* content-type among the caller's headers, the request has the JSON text  *)
(* of the body as its body (parsing it gives the body back), content-type  *)
(* application/json, and the route's method.                               *)
(***************************************************************************)
C8_JsonBodyEncoded ==
  \A s \in Slots :
    LET i == inv[s]
    IN (/\ InFlight(i)
        /\ i.args.body.k # "undefined"
        /\ ~IsRawBody(i.args.body)
        /\ CallerContentType(i.staticHeaders) = <<>>)
       => /\ i.req.body.k = "string"
          /\ i.req.body.v = JSONStringify(i.args.body)
          /\ JSONParse(i.req.body.v) = [ok |-> TRUE, v |-> i.args.body]
          /\ HeadersHas(i.req.headers, "content-type")
          /\ i.req.headers["content-type"] = <<"application/json">>
          /\ i.req.method = RouteOf(i).method

C8_Witness ==
  \E s \in Slots :
    LET i == inv[s]
    IN /\ InFlight(i)
       /\ i.args.body.k = "object"
       /\ i.staticHeaders.k = "object"
       /\ CallerContentType(i.staticHeaders) = <<>>
       /\ i.req.method = "POST"
       /\ i.req.body.k = "string"

(***************************************************************************)
(* C9: with no body the request has no body and exactly the caller's       *)
(* headers; with a FormData, Blob or ReadableStream body it carries that   *)
(* very body and exactly the caller's headers: no content-type is added.   *)
(***************************************************************************)
C9_NoContentTypeAddedForAbsentOrRawBody ==
  \A s \in Slots :
    LET i == inv[s]
    IN InFlight(i)
       => /\ i.args.body.k = "undefined"
               => /\ i.req.body = Undefined
                  /\ ExactlyCallerHeaders(i.req.headers, i.staticHeaders)
          /\ IsRawBody(i.args.body)
               => /\ i.req.body = i.args.body
                  /\ ExactlyCallerHeaders(i.req.headers, i.staticHeaders)

C9_Witness ==
  \E s \in Slots :
    LET i == inv[s]
    IN /\ InFlight(i)
       /\ IsRawBody(i.args.body)
       /\ i.staticHeaders.k = "object"
       /\ CallerContentType(i.staticHeaders) = <<>>
       /\ i.req.body = i.args.body
       /\ ~HeadersHas(i.req.headers, "content-type")

(***************************************************************************)
(* C10: with no mapResponse, a success response with status 204 (whatever  *)
(* its headers) or without a content-type resolves the method to           *)
(* undefined, and its body is not decoded.                                 *)
(***************************************************************************)
C10_NoContentResolvesUndefined ==
  \A s \in Slots :
    LET i == inv[s]
    IN (/\ i.res # NoResponse
        /\ ~client.mapResponse
        /\ Is2xx(i.res.status)
        /\ i.res.status = 204 \/ ~HasContentType(i.res))
       => /\ i.pc = "done"
          /\ i.out = Resolved(Undefined)
          /\ i.calls.json = 0 /\ i.calls.text = 0

C10_Witness ==
  \E s \in Slots :
    LET i == inv[s]
    IN /\ Answered(i)
       /\ ~client.mapResponse
       /\ i.res.status = 204
       /\ HasContentType(i.res)
       /\ i.res.text # <<>>
       /\ i.out = Resolved(Undefined)

\* payloads a server encodes as JSON text
EncodedPayloads ==
  { JNum(5), JObj(<< <<<<"m">>, JStr(<<"x">>)>> >>) }

\* the content-type of the response indicates JSON
IndicatesJson(res) ==
  /\ HasContentType(res)
  /\ \A n \in 1..Len(res.headers["content-type"]) :
       res.headers["content-type"][n] \in JsonTypes

(***************************************************************************)
(* C11: with no mapResponse, a success response other than 204 whose       *)
(* content-type indicates JSON (application/json, or a type ending in      *)
(* +json) and whose body is the JSON text of a payload resolves the method *)
(* to that payload: the value obtained by one JSON parse of the body read. *)
(***************************************************************************)
C11_JsonResolvesToPayload ==
  \A s \in Slots :
    LET i == inv[s]
    IN (/\ Answered(i)
        /\ ~client.mapResponse
        /\ Is2xx(i.res.status) /\ i.res.status # 204
        /\ IndicatesJson(i.res)
        /\ i.out # Rejected(Failure("body")))
       => /\ i.calls.json = 1 /\ i.calls.text = 0
          /\ i.got = JStr(i.res.text)
          /\ \A p \in EncodedPayloads :
               i.res.text = JSONStringify(p) => i.out = Resolved(p)

C11_Witness ==
  \E s \in Slots :
    LET i == inv[s]
    IN /\ Answered(i)
       /\ ~client.mapResponse
       /\ i.res.status = 299
       /\ i.res.headers = ResponseHeaders("application/hal+json")
       /\ i.out = Resolved(JObj(<< <<<<"m">>, JStr(<<"x">>)>> >>))

(***************************************************************************)
(* C12: when mapResponse is supplied, every success response, status 204   *)
(* and responses without a content-type included, has mapResponse invoked  *)
(* once and no default decoding, and the method settles as mapResponse     *)
(* does: it resolves to exactly the value mapResponse returned (when       *)
(* mapResponse fails there is no such value and its failure is the         *)
(* rejection); mapResponse is never invoked for a response outside         *)
(* 200..299.                                                               *)
(***************************************************************************)
C12_MapResponseDecidesSuccess ==
  \A s \in Slots :
    LET i == inv[s]
    IN (client.mapResponse /\ i.res # NoResponse)
       => /\ Is2xx(i.res.status)
               => /\ i.calls.mapResponse = 1 /\ i.arg = i.res
                  /\ i.calls.json = 0 /\ i.calls.text = 0
                  /\ i.pc \in {"awaitMapResponse", "done"}
                  /\ i.pc = "done"
                       => \/ i.out = Resolved(i.got)
                          \/ i.out = Rejected(Failure("mapResponse"))
          /\ ~Is2xx(i.res.status) => i.calls.mapResponse = 0

C12_Witness ==
  \E s \in Slots :
    LET i == inv[s]
    IN /\ Answered(i)
       /\ client.mapResponse
       /\ i.res.status = 204
       /\ ~HasContentType(i.res)
       /\ i.calls.mapResponse = 1
       /\ i.out = Resolved(JObj(<< <<<<"d">>, JNum(1)>> >>))

(***************************************************************************)
(* C13: when parseError is supplied, every response outside 200..299 has   *)
(* parseError invoked exactly once and the default decoding (text, JSON)   *)
(* not applied, and the body of the HttpError raised is exactly what       *)
(* parseError returned; parseError is never invoked for a response in      *)
(* 200..299.                                                               *)
(***************************************************************************)
C13_ParseErrorDecidesErrorBody ==
  \A s \in Slots :
    LET i == inv[s]
    IN (client.parseError /\ i.res # NoResponse)
       => /\ ~Is2xx(i.res.status)
               => /\ i.calls.parseError = 1 /\ i.arg = i.res
                  /\ i.calls.text = 0 /\ i.calls.json = 0
                  /\ i.calls.mapResponse = 0
                  /\ i.pc \in {"awaitParseError", "done"}
                  /\ (i.pc = "done" /\ i.out.v.k = "HttpError")
                       => i.out = Rejected(HttpError(i.res.status, i.got))
          /\ Is2xx(i.res.status) => i.calls.parseError = 0

C13_Witness ==
  \E s \in Slots :
    LET i == inv[s]
    IN /\ Answered(i)
       /\ client.parseError
       /\ i.res.status = 404
       /\ i.res.text = <<"{", "\"", "m", "\"", ":", "\"", "x", "\"", "}">>
       /\ i.calls.parseError = 1
       /\ i.out = Rejected(HttpError(404, JStr(<<"m">>)))

(***************************************************************************)
(* C14: with no parseError, a response outside 200..299 is always rejected *)
(* with an HttpError, whose body is the JSON-parsed value of the text read *)
(* from the response when that text is valid JSON and the text itself      *)
(* otherwise (the text read is '' when the body cannot be read); text      *)
(* that is not JSON never makes the rejection anything but an HttpError.   *)
(***************************************************************************)
C14_DefaultErrorBodyJsonElseText ==
  \A s \in Slots :
    LET i == inv[s]
    IN (/\ Answered(i)
        /\ ~client.parseError
        /\ ~Is2xx(i.res.status))
       => /\ i.out.kind = "rejected"
          /\ i.out.v.k = "HttpError"
          /\ i.out.v.v.status = i.res.status
          /\ i.calls.text = 1 /\ i.calls.json = 0 /\ i.calls.mapResponse = 0
          /\ i.got \in {JStr(i.res.text), JStr(<<>>)}
          /\ \A p \in EncodedPayloads :
               i.got.v = JSONStringify(p) => i.out.v.v.body = p
          /\ JSONParse(i.got.v).ok => i.out.v.v.body = JSONParse(i.got.v).v
          /\ ~JSONParse(i.got.v).ok => i.out.v.v.body = i.got

C14_Witness ==
  \E s \in Slots :
    LET i == inv[s]
    IN /\ Answered(i)
       /\ ~client.parseError
       /\ i.res.status = 300
       /\ i.res.headers = ResponseHeaders("application/json")
       /\ i.res.text = <<"h", "i">>
       /\ i.out = Rejected(HttpError(300, JStr(<<"h", "i">>)))

\* the base URLs that do not end in a slash
SlashlessBases == {b \in BaseUrls : b[Len(b)] # "/"}

(***************************************************************************)
(* C15: for every base URL b that does not end in a slash, the client      *)
(* built with b and the client built with b followed by "/" hand the       *)
(* transport the same URL for every route and every argument object: b     *)
(* followed by the path built from the route and the arguments.            *)
(***************************************************************************)
C15_TrailingSlashMakesNoDifference ==
  \A s \in Slots :
    LET i == inv[s]
    IN InFlight(i)
       => \A b \in SlashlessBases :
            client.options.baseUrl \in {b, b \o <<"/">>}
            => i.req.url = b \o BuildPath(RouteOf(i), i.args.params, i.args.query).s

C15_Witness ==
  \E s \in Slots :
    LET i == inv[s]
    IN /\ InFlight(i)
       /\ client.options.baseUrl = <<"/", "v", "/">>
       /\ i.key = "getUser"
       /\ i.args.query.k = "object"
       /\ i.req.url = <<"/", "v", "/", "u", "/", "7", "?", "n", "=", "5">>

\* the Headers object has every entry of the caller's headers, name and value
CarriesAll(headers, init) ==
  init.k = "object"
  => \A n \in 1..Len(init.v) :
       /\ HeadersHas(headers, init.v[n][1])
       /\ init.v[n][2] \in Range(headers[LowerCase(init.v[n][1])])

(***************************************************************************)
(* C16: every request handed to the transport carries all the configured   *)
(* static headers; when headers is a function, an invocation that reaches  *)
(* the transport has invoked it exactly once, and the request carries all  *)
(* the headers that very invocation's call of the function resolved to.    *)
(***************************************************************************)
C16_ConfiguredHeadersOnEveryRequest ==
  \A s \in Slots :
    LET i == inv[s]
    IN /\ i.calls.headers <= 1
       /\ InFlight(i)
            => /\ client.headers.k = "function"
                    => /\ i.calls.headers = 1
                       /\ i.staticHeaders \in DynamicHeaderResults
               /\ client.headers.k # "function"
                    => /\ i.calls.headers = 0
                       /\ i.staticHeaders = client.headers
               /\ CarriesAll(i.req.headers, i.staticHeaders)

\* the invocation was rejected before the transport was reached: for a
\* missing path parameter, or with the failure of the header function
RejectedEarly(i) ==
  /\ i.pc = "done"
  /\ i.out.kind = "rejected"
  /\ i.out.v.k = "Error" \/ i.out.v = Failure("headers")

\* the invocation has gone past the call of the transport
PastTransport(i) ==
  i.pc \in {"awaitFetch", "awaitParseError", "awaitText", "awaitMapResponse",
           "awaitJson"}
  \/ (i.pc = "done" /\ ~RejectedEarly(i))

(***************************************************************************)
(* C17 as stated: each invocation performs exactly one call of the         *)
(* transport: every invocation that has finished made one, and once n      *)
(* invocations have finished the transport has been called n times.        *)
(***************************************************************************)
C17_OneTransportCallPerInvocation ==
  /\ \A s \in Slots : inv[s].pc = "done" => inv[s].calls.fetch = 1
  /\ (\A s \in Slots : inv[s].pc \in {"idle", "done"}) => count.fetch = count.calls

(***************************************************************************)
(* C17 amended: an invocation that is rejected before the transport is     *)
(* reached (missing path parameter, failing header function) makes no call *)
(* of the transport, and every other invocation makes exactly one, whether *)
(* the transport fails or answers, 2xx or not; of n invocations, k of them *)
(* rejected early and none still resolving its headers, the transport has  *)
(* been called n - k times.                                                *)
(***************************************************************************)
C17_OneTransportCallUnlessRejectedEarly ==
  /\ \A s \in Slots :
       LET i == inv[s]
       IN /\ PastTransport(i) => i.calls.fetch = 1
          /\ ~PastTransport(i) => i.calls.fetch = 0
  /\ count.calls = count.fetch + count.early
                    + Cardinality({s \in Slots : inv[s].pc = "awaitHeaders"})

C17_Witness ==
  \E s \in Slots :
    LET i == inv[s]
    IN /\ count.calls = 2 /\ count.fetch = 1 /\ count.early = 1
       /\ Answered(i)
       /\ i.res.status = 404
       /\ i.calls.fetch = 1

\* the transport failed: the invocation called it, however often, and has no
\* response
TransportFailed(i) ==
  i.pc = "done" /\ i.calls.fetch >= 1 /\ i.res = NoResponse

(***************************************************************************)
(* C19: when the transport function fails, the invocation is rejected with *)
(* the very value the transport failed with, not wrapped (so not an        *)
(* HttpError); the transport has been called once and not again, and       *)
(* neither mapResponse nor parseError nor a body decoder has been called.  *)
(***************************************************************************)
C19_TransportFailurePropagates ==
  \A s \in Slots :
    LET i == inv[s]
    IN TransportFailed(i)
       => /\ i.got \in TransportFailures
          /\ i.out = Rejected(i.got)
          /\ i.out.v.k # "HttpError"
          /\ i.calls.fetch = 1
          /\ i.calls.mapResponse = 0 /\ i.calls.parseError = 0
          /\ i.calls.text = 0 /\ i.calls.json = 0

C19_Witness ==
  \E s \in Slots :
    LET i == inv[s]
    IN /\ TransportFailed(i)
       /\ client.mapResponse /\ client.parseError
       /\ i.out = Rejected(Failure("abort"))
       /\ count.calls = 1 /\ count.fetch = 1

\* the client has one callable per entry of the registry and no other, each
\* with the method and the path of its own entry
MirrorsRegistry(methods, contract) ==
  /\ DOMAIN methods = DOMAIN contract
  /\ \A key \in DOMAIN contract :
       /\ methods[key].method = contract[key].method
       /\ methods[key].path = contract[key].path

(***************************************************************************)
(* C20: createContract returns the mapping it is given; the client that    *)
(* createClient returns for a registry has exactly the key set of that     *)
(* registry, each callable with the method and path of its own entry; and  *)
(* a callable invoked sends its own entry's method to its own entry's      *)
(* path.                                                                   *)
(***************************************************************************)
C20_ClientMirrorsRegistry ==
  /\ [](/\ \A routes \in Registries : createContract(routes) = routes
        /\ client.made => \E contract \in Contracts :
                             MirrorsRegistry(client.methods, contract)
        /\ \A s \in Slots :
             LET i == inv[s]
             IN InFlight(i)
                => /\ i.key \in DOMAIN client.methods
                   /\ i.req.method = client.methods[i.key].method
                   /\ BeforeQuery(i.req.url)
                        = client.baseUrl
                          \o BuildPath(client.methods[i.key], i.args.params, Undefined).s)
  /\ [][(~client.made /\ client'.made)
         => \A contract \in Contracts, options \in ClientOptions :
              CreateClient(contract, options)
              => MirrorsRegistry(client'.methods, contract)]_vars

C20_Witness ==
  \E s \in Slots :
    LET i == inv[s]
    IN /\ InFlight(i)
       /\ DOMAIN client.methods = {"health", "getUser", "createUser", "putItem"}
       /\ i.key = "putItem"
       /\ i.req.method = "PUT"
       /\ i.req.url = <<"/", "v", "/", "b", "%", "2", "F", "%", "3", "A", "c",
                        "/", "x", "-", "k">>

\* the request of an invocation run alone: a function of its route, its
\* arguments and the headers its own header resolution gave
AloneRequest(i) ==
  BuildRequest(RouteOf(i), client.baseUrl,
               BuildPath(RouteOf(i), i.args.params, i.args.query).s,
               i.staticHeaders, i.args.body)

\* the outcomes of an invocation run alone on the response res, got being
\* what the promise it awaited settled with
AloneOutcomes(res, got) ==
  IF ~Ok(res)
  THEN IF client.parseError
       THEN {Rejected(HttpError(res.status, got)), Rejected(Failure("parseError"))}
       ELSE {Rejected(HttpError(res.status, ErrorBody(got.v)))}
  ELSE IF client.mapResponse
  THEN {Resolved(got), Rejected(Failure("mapResponse"))}
  ELSE IF res.status = 204 \/ NoContentType(res)
  THEN {Resolved(Undefined)}
  ELSE { IF JSONParse(res.text).ok THEN Resolved(JSONParse(res.text).v)
                                   ELSE Rejected(SyntaxError),
         Rejected(Failure("body")) }

(***************************************************************************)
(* C18: with two invocations running concurrently, interleaved in every    *)
(* way at their awaits (header resolution, transport, callbacks and body   *)
(* decoding), the request of each (URL, method, headers, body) is the one  *)
(* it sends when run alone with its arguments and its headers, its outcome *)
(* is one it has when run alone on its response; a step of one invocation  *)
(* changes nothing of the other, and no step changes the client.           *)
(***************************************************************************)
C18_InvocationsDoNotInterfere ==
  /\ [](\A s \in ConcSlots :
          LET i == inv[s]
          IN /\ InFlight(i)
                  => /\ i.req = AloneRequest(i)
                     /\ client.headers.k = "function"
                          => i.staticHeaders \in DynamicHeaderResults
                     /\ client.headers.k # "function"
                          => i.staticHeaders = client.headers
             /\ i.arg \in {NoResponse, i.res}
             /\ Answered(i) => i.out \in AloneOutcomes(i.res, i.got))
  /\ [][/\ client.made => client' = client
         /\ \A s, t \in ConcSlots :
              (s # t /\ inv'[s] # inv[s]) => inv'[t] = inv[t]]_vars

C18_Witness ==
  /\ DOMAIN inv = ConcSlots
  /\ InFlight(inv[1]) /\ InFlight(inv[2])
  /\ inv[1].key = "getUser" /\ inv[2].key = "createUser"
  /\ inv[1].staticHeaders # inv[2].staticHeaders
  /\ inv[1].req.body = Undefined
  /\ inv[2].req.body.k = "string"
  /\ ~HeadersHas(inv[1].req.headers, "content-type")

\* the invocation has begun to interpret a response
Interpreting(i) ==
  i.calls.parseError + i.calls.mapResponse + i.calls.text + i.calls.json > 0

\* the steps of an invocation in the order the claims give them: the pairs
\* of places an invocation moves between
StepOrder ==
  ({"idle"} \X {"awaitHeaders", "awaitFetch", "done"})
  \cup ({"awaitHeaders"} \X {"awaitFetch", "done"})
  \cup ({"awaitFetch"} \X {"awaitParseError", "awaitText", "awaitMapResponse",
                            "awaitJson", "done"})
  \cup ({"awaitParseError", "awaitText", "awaitMapResponse", "awaitJson"} \X {"done"})
  \cup ({"done"} \X {"idle"})

(***************************************************************************)
(* C21 as stated: header resolution comes before path interpolation: with  *)
(* a header function, whenever the path of an invocation has been built,   *)
(* or its interpolation has failed for a missing parameter, the header     *)
(* function has been invoked and has settled.                              *)
(***************************************************************************)
C21_HeadersResolvedBeforePath ==
  \A s \in Slots :
    LET i == inv[s]
    IN (/\ client.headers.k = "function"
        /\ HasLocals(i)
        /\ i.path # <<>> \/ i.out.v.k = "Error")
       => /\ i.calls.headers = 1
          /\ i.pc # "awaitHeaders"

(***************************************************************************)
(* C21 amended: within one invocation the path is built first (a missing   *)
(* parameter ends the invocation there, the header function not invoked),  *)
(* then the header function, if any, is invoked and awaited, then the      *)
(* transport is called, then the response is interpreted; the invocation   *)
(* never moves back to an earlier step.                                    *)
(***************************************************************************)
C21_PathThenHeadersThenTransport ==
  /\ [](\A s \in Slots :
          LET i == inv[s]
              bp == BuildPath(RouteOf(i), i.args.params, i.args.query)
          IN /\ i.pc = "awaitHeaders"
                  => /\ bp.ok /\ i.path = bp.s
                     /\ i.calls.headers = 1 /\ i.calls.fetch = 0
             /\ i.out.v.k = "Error"
                  => i.calls.headers = 0 /\ i.calls.fetch = 0
             /\ InFlight(i)
                  => /\ i.path = bp.s
                     /\ client.headers.k = "function"
                          => /\ i.calls.headers = 1
                             /\ i.staticHeaders \in DynamicHeaderResults
                     /\ i.res = NoResponse /\ ~Interpreting(i)
             /\ Interpreting(i) => i.res # NoResponse /\ i.calls.fetch = 1)
  /\ [][\A s \in Slots :
          inv'[s].pc # inv[s].pc => <<inv[s].pc, inv'[s].pc>> \in StepOrder]_vars

C21_Witness ==
  \E s \in Slots :
    LET i == inv[s]
    IN /\ i.pc = "awaitHeaders"
       /\ i.key = "getUser"
       /\ i.path = <<"/", "u", "/", "7", "?", "n", "=", "5">>
       /\ i.calls.headers = 1
       /\ i.calls.fetch = 0

\* body texts that are not JSON
InvalidJsonTexts == { <<>>, <<"h", "i">> }

(***************************************************************************)
(* C22: with no mapResponse, a success response other than 204 whose       *)
(* content-type indicates JSON and whose body, once read, is not valid     *)
(* JSON rejects the invocation with the decode failure itself (the         *)
(* SyntaxError of the JSON parse): not an HttpError, and not the raw text  *)
(* as a value; the same body on a response outside 200..299, with no       *)
(* parseError, gives an HttpError whose body is the raw text.              *)
(***************************************************************************)
C22_InvalidJsonOnSuccessPropagates ==
  \A s \in Slots :
    LET i == inv[s]
    IN (/\ Answered(i)
        /\ i.got = JStr(i.res.text)
        /\ i.res.text \in InvalidJsonTexts)
       => /\ (/\ ~client.mapResponse
               /\ Is2xx(i.res.status) /\ i.res.status # 204
               /\ IndicatesJson(i.res))
               => /\ i.out = Rejected(SyntaxError)
                  /\ i.calls.json = 1 /\ i.calls.text = 0
          /\ (~client.parseError /\ ~Is2xx(i.res.status))
               => i.out = Rejected(HttpError(i.res.status, JStr(i.res.text)))

C22_Witness ==
  \E s \in Slots :
    LET i == inv[s]
    IN /\ Answered(i)
       /\ ~client.mapResponse
       /\ i.res.status = 200
       /\ i.res.headers = ResponseHeaders("application/hal+json")
       /\ i.res.text = <<"h", "i">>
       /\ i.out = Rejected(SyntaxError)

(***************************************************************************)
(* C23: an invocation rejected for a missing path parameter, or with the   *)
(* failure of the header function, has made no call of the transport, and  *)
(* the step that rejects it makes none; the one rejected for a missing     *)
(* path parameter has not invoked the header function either.              *)
(***************************************************************************)
C23_NoTransportAfterEarlyFailure ==
  /\ [](\A s \in Slots :
          LET i == inv[s]
          IN i.pc = "done"
             => /\ i.out.v.k = "Error"
                     => /\ i.calls.fetch = 0 /\ i.calls.headers = 0
                        /\ i.res = NoResponse /\ i.req = NoRequest
                /\ i.out = Rejected(Failure("headers"))
                     => /\ i.calls.fetch = 0 /\ i.calls.headers = 1
                        /\ i.res = NoResponse /\ i.req = NoRequest)
  /\ [][\A s \in Slots :
          (RejectedEarly(inv'[s]) /\ ~RejectedEarly(inv[s]))
          => count'.fetch = count.fetch]_vars

C23_Witness ==
  \E s \in Slots :
    LET i == inv[s]
    IN /\ i.pc = "done"
       /\ client.headers.k = "function"
       /\ i.out = Rejected(MissingPathParam(<<"i", "d">>))
       /\ i.calls.headers = 0
       /\ count.calls = 2 /\ count.fetch = 1

\* the invocation is under way
Active(i) == i.pc \notin {"idle", "done"}

\* the invocation awaits mapResponse or parseError
AtOverride(i) == i.pc \in {"awaitMapResponse", "awaitParseError"}

\* the invocation has finished in exactly one of the outcomes: resolved
\* with a value, or rejected with the missing-path-parameter error, with an
\* HttpError, or with a failure passed on as it was raised
OneOutcome(i) ==
  \/ /\ i.out.kind = "resolved"
     /\ i.out.v.k \notin {"Error", "HttpError", "Failure", "SyntaxError"}
  \/ /\ i.out.kind = "rejected"
     /\ i.out.v.k \in {"Error", "HttpError", "Failure", "SyntaxError"}

\* an invocation not yet finished has neither resolved nor rejected, one
\* that has finished has one outcome, and it keeps it
SettlesOnce ==
  /\ [](\A s \in Slots :
          /\ inv[s].pc # "done" => inv[s].out = NoOutcome
          /\ inv[s].pc = "done" => OneOutcome(inv[s]))
  /\ [][\A s \in Slots :
          (inv[s].pc = "done" /\ inv'[s].pc = "done") => inv'[s].out = inv[s].out]_vars

(***************************************************************************)
(* C24 as stated: provided the header function, the transport and the body *)
(* decoders of the response each settle, every invocation under way        *)
(* eventually finishes, in exactly one outcome.                            *)
(***************************************************************************)
C24_EveryInvocationFinishes ==
  /\ SettlesOnce
  /\ \A s \in Slots : [](Active(inv[s]) => <>(inv[s].pc = "done"))

(***************************************************************************)
(* C24 amended: provided the header function, the transport, the body      *)
(* decoders of the response and also mapResponse and parseError, when they *)
(* are supplied, each settle, every invocation under way eventually        *)
(* finishes; an invocation has no outcome before it finishes, exactly one  *)
(* when it does (resolved with a value, rejected with the missing path     *)
(* parameter, with an HttpError, or with a propagated failure), and the    *)
(* outcome never changes.                                                  *)
(***************************************************************************)
C24_FinishesWhenOverridesSettle ==
  /\ SettlesOnce
  /\ \A s \in Slots :
       ([]<>(~AtOverride(inv[s])))
       => [](Active(inv[s]) => <>(inv[s].pc = "done"))

C24_Witness ==
  \E s \in Slots :
    LET i == inv[s]
    IN /\ i.pc = "done"
       /\ client.headers.k = "function"
       /\ client.mapResponse
       /\ i.calls.headers = 1 /\ i.calls.fetch = 1 /\ i.calls.mapResponse = 1
       /\ i.out = Resolved(JStr(<<"m">>))

====
